---- MODULE Spec2Model ----
(***************************************************************************)
(* LP Impermanent Loss Estimator: the position-based calculator            *)
(* calculateImpermanentLoss of src/src/index.ts and of src/index.ts, the   *)
(* x402 entrypoint handlers that call it, and the internal API endpoint.   *)
(*                                                                         *)
(* Numbers.  A JavaScript number is modelled as a pair <<n, d>>:           *)
(*   d > 0  the finite value n/d in lowest terms,                          *)
(*   <<1, 0>> is Infinity, <<-1, 0>> is -Infinity, <<0, 0>> is NaN.        *)
(* Arithmetic is exact on finite values and follows IEEE-754 on the        *)
(* special values (x/0, Infinity*0, Infinity-Infinity, sqrt of a negative, *)
(* comparisons with NaN).  The sign of zero is not modelled: every zero is *)
(* +0.  The inputs are drawn so that every square root the code takes is   *)
(* the root of a perfect square, where Math.sqrt is exact.                 *)
(***************************************************************************)
EXTENDS Integers, Sequences, FiniteSets, TLC

VARIABLES
  pc,           \* "idle": no request; "pending": one received; "done": answered
  req,          \* the request: its route, its X-Internal-API-Key header, its body
  resp,         \* the answer to req: status and body
  expectedKey,  \* process.env.INTERNAL_API_KEY
  result,       \* what calculateImpermanentLoss returned for req, if it was called
  bodyRead      \* whether the handler has read the body of req

vars == <<pc, req, resp, expectedKey, result, bodyRead>>

(***************************************************************************)
(* Bounds of the model.                                                    *)
(***************************************************************************)
\* Grid of the modelled Math.sqrt on a value that has no rational root.
SqrtScale == 100
\* Deposited amounts are 0 and the squares up to MaxRoot * MaxRoot.
MaxRoot == 2

(***************************************************************************)
(* JavaScript numbers.                                                     *)
(***************************************************************************)
NaN == <<0, 0>>
PosInf == <<1, 0>>
NegInf == <<-1, 0>>

AbsInt(i) == IF i < 0 THEN -i ELSE i
Sgn(i) == IF i < 0 THEN -1 ELSE IF i > 0 THEN 1 ELSE 0

RECURSIVE GCD(_, _)
GCD(a, b) == IF b = 0 THEN a ELSE GCD(b, a % b)

\* The finite number n/d (d > 0) in lowest terms.
Norm(n, d) ==
  LET g == GCD(AbsInt(n), d)
  IN  <<Sgn(n) * (AbsInt(n) \div g), d \div g>>

Num(i) == <<i, 1>>
Frac(n, d) == Norm(n, d)

IsNaN(x) == x = NaN
IsFinite(x) == x[2] # 0
IsZero(x) == x[2] # 0 /\ x[1] = 0

Neg(x) == <<-x[1], x[2]>>
Abs(x) == <<AbsInt(x[1]), x[2]>>

\* x * y.  Infinity * 0 and anything with NaN is NaN.
Mul(x, y) ==
  IF x[2] = 0 \/ y[2] = 0
  THEN <<Sgn(x[1]) * Sgn(y[1]), 0>>
  ELSE Norm(x[1] * y[1], x[2] * y[2])

\* x / y.  0/0 and Infinity/Infinity are NaN, x/0 is +-Infinity.
Div(x, y) ==
  IF IsNaN(x) \/ IsNaN(y) THEN NaN
  ELSE IF x[2] = 0 THEN (IF y[2] = 0 THEN NaN
                         ELSE <<x[1] * (IF y[1] < 0 THEN -1 ELSE 1), 0>>)
  ELSE IF y[2] = 0 THEN Num(0)
  ELSE IF y[1] = 0 THEN <<Sgn(x[1]), 0>>
  ELSE Norm(Sgn(y[1]) * x[1] * y[2], x[2] * AbsInt(y[1]))

\* x + y.  Infinity + -Infinity is NaN.
Add(x, y) ==
  IF IsNaN(x) \/ IsNaN(y) THEN NaN
  ELSE IF x[2] = 0 THEN (IF y[2] = 0 /\ y[1] # x[1] THEN NaN ELSE x)
  ELSE IF y[2] = 0 THEN y
  ELSE LET g == GCD(x[2], y[2])
       IN  Norm(x[1] * (y[2] \div g) + y[1] * (x[2] \div g), (x[2] \div g) * y[2])

Sub(x, y) == Add(x, Neg(y))

\* x < y.  False when either side is NaN.
Lt(x, y) ==
  IF IsNaN(x) \/ IsNaN(y) THEN FALSE
  ELSE IF x[2] = 0 THEN x[1] < 0 /\ y # NegInf
  ELSE IF y[2] = 0 THEN y[1] > 0
  ELSE x[1] * y[2] < y[1] * x[2]

Gt(x, y) == Lt(y, x)

RECURSIVE SqrtSearch(_, _, _)
SqrtSearch(n, lo, hi) ==
  IF lo >= hi THEN lo
  ELSE LET mid == (lo + hi + 1) \div 2
       IN  IF mid * mid <= n THEN SqrtSearch(n, mid, hi)
           ELSE SqrtSearch(n, lo, mid - 1)

\* The largest integer whose square is at most n.
FloorSqrt(n) == SqrtSearch(n, 0, IF n < 46340 THEN n ELSE 46340)

\* Math.sqrt: NaN on a negative number (and on NaN), Infinity on Infinity, the
\* exact root of a perfect square; any other value is rounded to the nearest
\* multiple of 1/SqrtScale.
Sqrt(x) ==
  IF x[1] < 0 \/ IsNaN(x) THEN NaN
  ELSE IF x[2] = 0 THEN PosInf
  ELSE LET rn == FloorSqrt(x[1])
           rd == FloorSqrt(x[2])
       IN  IF rn * rn = x[1] /\ rd * rd = x[2] THEN <<rn, rd>>
           ELSE LET m == (x[1] * SqrtScale * SqrtScale) \div x[2]
                    r == FloorSqrt(m)
                IN  Norm(IF m - r * r > r THEN r + 1 ELSE r, SqrtScale)

\* Number(x.toFixed(2)): the multiple of 1/100 nearest to x, the one of larger
\* magnitude on a tie; NaN and the infinities print and parse back as themselves.
\* (The hundredths are found by long division, digit by digit.)
ToFixed2(x) ==
  IF x[2] = 0 THEN x
  ELSE LET m  == AbsInt(x[1])
           d  == x[2]
           r1 == m % d
           r2 == (10 * r1) % d
           r3 == (10 * r2) % d
           h  == 100 * (m \div d) + 10 * ((10 * r1) \div d) + ((10 * r2) \div d)
       IN  Norm(Sgn(x[1]) * (IF 2 * r3 >= d THEN h + 1 ELSE h), 100)

(***************************************************************************)
(* calculateImpermanentLoss.  An argument list is a record a with the      *)
(* function's seven parameters as fields.  Lines 62-78 of src/src/index.ts *)
(* and lines 24-37 of src/index.ts are the same statements; the two files  *)
(* differ in the recommendation rules and in the rounding of the result.   *)
(***************************************************************************)
k(a) == Mul(a.amount0, a.amount1)
newAmount0(a) == Sqrt(Div(k(a), a.priceRatio))
newAmount1(a) == Sqrt(Mul(k(a), a.priceRatio))

initialValue(a) ==
  Add(Mul(a.amount0, a.initialPrice0), Mul(a.amount1, a.initialPrice1))
currentValue(a) ==
  Add(Mul(Mul(newAmount0(a), a.initialPrice0), a.priceRatio),
      Mul(newAmount1(a), a.initialPrice1))
hodlValue(a) ==
  Add(Mul(Mul(a.amount0, a.initialPrice0), a.priceRatio),
      Mul(a.amount1, a.initialPrice1))

\* The loss taken from the value that includes the fees.
ilUsd_WithFees(a) == Sub(Add(currentValue(a), a.feesEarned), hodlValue(a))
ilUsd(a) == Sub(currentValue(a), hodlValue(a))
ilPercentage(a) == Mul(Div(ilUsd(a), hodlValue(a)), Num(100))

\* The fees of a year of 360 days.
annualFees_Year360(a) == Mul(Div(a.feesEarned, a.daysHeld), Num(360))
annualFees(a) == Mul(Div(a.feesEarned, a.daysHeld), Num(365))
\* The fee rate taken over the deposit plus the fees instead of the deposit.
feeApr_OverValueWithFees(a) ==
  Mul(Div(annualFees(a), Add(initialValue(a), a.feesEarned)), Num(100))
feeApr(a) == Mul(Div(annualFees(a), initialValue(a)), Num(100))
netApr(a) == Add(feeApr(a), Mul(Div(ilPercentage(a), a.daysHeld), Num(365)))

ConsiderExiting == "Consider exiting - IL exceeds fee earnings"
StrongPosition == "Strong position - fees outpace IL"
ProfitablePosition == "Profitable position - fees covering IL"
HighIL == "High IL detected - evaluate exit strategy"
MonitorPosition == "Monitor position"

\* The chain with its first two tests in the other order.
recommendation_NetAprFirst(il, fee, net) ==
  IF Gt(net, Num(10)) THEN StrongPosition
  ELSE IF Lt(il, Num(-5)) /\ Lt(fee, Abs(il)) THEN ConsiderExiting
  ELSE IF Gt(net, Num(0)) THEN ProfitablePosition
  ELSE IF Lt(il, Num(-10)) THEN HighIL
  ELSE MonitorPosition

\* src/src/index.ts: the if / else-if chain over the unrounded values.
recommendation(il, fee, net) ==
  IF Lt(il, Num(-5)) /\ Lt(fee, Abs(il)) THEN ConsiderExiting
  ELSE IF Gt(net, Num(10)) THEN StrongPosition
  ELSE IF Gt(net, Num(0)) THEN ProfitablePosition
  ELSE IF Lt(il, Num(-10)) THEN HighIL
  ELSE MonitorPosition

\* src/index.ts: the chain has two branches only.
recommendationRoot(il, fee, net) ==
  IF Lt(il, Num(-5)) /\ Lt(fee, Abs(il)) THEN ConsiderExiting
  ELSE IF Gt(net, Num(10)) THEN StrongPosition
  ELSE MonitorPosition

\* src/src/index.ts: every numeric field goes through Number(x.toFixed(2)).
calculateImpermanentLoss(a) ==
  [il_percentage     |-> ToFixed2(ilPercentage(a)),
   il_usd            |-> ToFixed2(ilUsd(a)),
   initial_value_usd |-> ToFixed2(initialValue(a)),
   current_value_usd |-> ToFixed2(Add(currentValue(a), a.feesEarned)),
   hodl_value_usd    |-> ToFixed2(hodlValue(a)),
   fee_apr           |-> ToFixed2(feeApr(a)),
   net_apr           |-> ToFixed2(netApr(a)),
   recommendation    |-> recommendation(ilPercentage(a), feeApr(a), netApr(a))]

\* src/index.ts: the fields are returned as computed.
calculateImpermanentLossRoot(a) ==
  [il_percentage     |-> ilPercentage(a),
   il_usd            |-> ilUsd(a),
   initial_value_usd |-> initialValue(a),
   current_value_usd |-> Add(currentValue(a), a.feesEarned),
   hodl_value_usd    |-> hodlValue(a),
   fee_apr           |-> feeApr(a),
   net_apr           |-> netApr(a),
   recommendation    |-> recommendationRoot(ilPercentage(a), feeApr(a), netApr(a))]

(***************************************************************************)
(* Requests.                                                               *)
(***************************************************************************)
\* The values a request may carry in each field.
PriceRatios == {Num(-1), Num(0), Frac(1, 4), Num(1), Num(4)}
Prices == {Num(0), Num(1), Num(2)}
Amounts == {Num(0)} \cup {Num(i * i) : i \in 1..MaxRoot}
\* amount_0 may be negative as well: z.number() accepts it.  (With one amount
\* negative and the prices non-negative no sum of the code is a negative zero,
\* so no infinity of the code has another sign than in this model.)
Amounts0 == Amounts \cup {Num(-1)}
Fees == {Num(0), Frac(1, 10000), Num(2), Num(4)}
Days == {Num(0), Num(73), Num(730)}

\* The objects ILInputSchema accepts: seven numbers, of any sign and size.
Inputs ==
  [initial_price_0 : Prices, initial_price_1 : Prices,
   current_price_ratio : PriceRatios,
   amount_0 : Amounts0, amount_1 : Amounts,
   fees_earned : Fees, days_held : Days]

\* The handlers' call: the input's fields in the order of the parameters.
Args(input) ==
  [priceRatio    |-> input.current_price_ratio,
   initialPrice0 |-> input.initial_price_0,
   initialPrice1 |-> input.initial_price_1,
   amount0       |-> input.amount_0,
   amount1       |-> input.amount_1,
   feesEarned    |-> input.fees_earned,
   daysHeld      |-> input.days_held]

\* The JavaScript value undefined: an unset variable, an absent header.
Undefined == "<undefined>"
EnvKeys == {Undefined, "", "k1"}
Headers == {Undefined, "", "k1", "k2"}

\* A body is the text of a JSON object of numbers (kind "object", with the set
\* `bad` of the schema's fields that are absent from it or are not numbers), or
\* text that is no JSON at all (kind "malformed").
SchemaFields ==
  {"initial_price_0", "initial_price_1", "current_price_ratio",
   "amount_0", "amount_1", "fees_earned", "days_held"}
SampleInput ==
  [initial_price_0 |-> Num(1), initial_price_1 |-> Num(1),
   current_price_ratio |-> Num(4),
   amount_0 |-> Num(1), amount_1 |-> Num(1),
   fees_earned |-> Num(2), days_held |-> Num(30)]
GoodBodies == {[kind |-> "object", input |-> i, bad |-> {}] : i \in Inputs}
BadBodies ==
  {[kind |-> "malformed", input |-> SampleInput, bad |-> {}]}
  \cup {[kind |-> "object", input |-> SampleInput, bad |-> {f}] : f \in SchemaFields}

NoReq == [route |-> "none"]
NoResp == [status |-> 0]
NoResult == [none |-> TRUE]

\* ILInputSchema.parse: throws unless every field is present and a number.
\* z.number() puts no bound on the value: zero and negative numbers pass.
\* A schema that lets every parsed body through.
ILInputSchema_AcceptAll(body) == TRUE
ILInputSchema(body) == body.bad = {}

\* JSON.stringify of a number, as c.json does it: a NaN or an infinity is
\* written as null.
Null == <<>>
JsonNumber(x) == IF x[2] = 0 THEN Null ELSE x
cjson(r) ==
  [il_percentage     |-> JsonNumber(r.il_percentage),
   il_usd            |-> JsonNumber(r.il_usd),
   initial_value_usd |-> JsonNumber(r.initial_value_usd),
   current_value_usd |-> JsonNumber(r.current_value_usd),
   hodl_value_usd    |-> JsonNumber(r.hodl_value_usd),
   fee_apr           |-> JsonNumber(r.fee_apr),
   net_apr           |-> JsonNumber(r.net_apr),
   recommendation    |-> r.recommendation]

(***************************************************************************)
(* The state machine: one request at a time is received, answered by the   *)
(* handler of its route, and delivered.  The handlers share no state, so   *)
(* requests in parallel behave as requests in sequence.                    *)
(***************************************************************************)
Init ==
  /\ pc = "idle"
  /\ req = NoReq
  /\ resp = NoResp
  /\ expectedKey \in EnvKeys
  /\ result = NoResult
  /\ bodyRead = FALSE

Receive(route, header, body) ==
  /\ pc' = "pending"
  /\ req' = [route |-> route, header |-> header, body |-> body]
  /\ resp' = NoResp
  /\ result' = NoResult
  /\ bodyRead' = FALSE
  /\ UNCHANGED expectedKey

\* src/src/index.ts, addEntrypoint: the agent kit parses the body with
\* ILInputSchema and calls the handler with the parsed input.
EntrypointHandler ==
  /\ pc = "pending"
  /\ req.route = "x402"
  /\ LET r == calculateImpermanentLoss(Args(req.body.input))
     IN  /\ result' = r
         /\ resp' = [status |-> 200, body |-> [output |-> r]]
  /\ bodyRead' = TRUE
  /\ pc' = "done"
  /\ UNCHANGED <<req, expectedKey>>

\* src/index.ts, app.addEntrypoint: the handler passes ctx.input on unchecked.
RootHandler ==
  /\ pc = "pending"
  /\ req.route = "root"
  /\ LET r == calculateImpermanentLossRoot(Args(req.body.input))
     IN  /\ result' = r
         /\ resp' = [status |-> 200, body |-> r]
  /\ bodyRead' = TRUE
  /\ pc' = "done"
  /\ UNCHANGED <<req, expectedKey>>

\* The endpoint without its test of the configured key: the header is only
\* compared with expectedKey, set or not.
InternalApi_NoConfigCheck ==
  /\ pc = "pending"
  /\ req.route = "internal"
  /\ IF req.header # expectedKey
     THEN /\ resp' = [status |-> 401, body |-> [error |-> "Unauthorized"]]
          /\ UNCHANGED <<result, bodyRead>>
     ELSE IF req.body.kind = "malformed"
     THEN /\ resp' = [status |-> 500, body |-> [error |-> "SyntaxError"]]
          /\ bodyRead' = TRUE
          /\ UNCHANGED result
     ELSE IF ~ILInputSchema(req.body)
     THEN /\ resp' = [status |-> 500, body |-> [error |-> "ZodError"]]
          /\ bodyRead' = TRUE
          /\ UNCHANGED result
     ELSE LET r == calculateImpermanentLoss(Args(req.body.input))
          IN  /\ result' = r
              /\ resp' = [status |-> 200, body |-> cjson(r)]
              /\ bodyRead' = TRUE
  /\ pc' = "done"
  /\ UNCHANGED <<req, expectedKey>>

\* src/src/index.ts, POST /api/internal/lp-impermanent-loss-estimator.
InternalApi ==
  /\ pc = "pending"
  /\ req.route = "internal"
  /\ IF expectedKey = Undefined \/ expectedKey = ""
     THEN /\ resp' = [status |-> 500, body |-> [error |-> "Server configuration error"]]
          /\ UNCHANGED <<result, bodyRead>>
     ELSE IF req.header # expectedKey
     THEN /\ resp' = [status |-> 401, body |-> [error |-> "Unauthorized"]]
          /\ UNCHANGED <<result, bodyRead>>
     ELSE IF req.body.kind = "malformed"
     THEN /\ resp' = [status |-> 500, body |-> [error |-> "SyntaxError"]]
          /\ bodyRead' = TRUE
          /\ UNCHANGED result
     ELSE IF ~ILInputSchema(req.body)
     THEN /\ resp' = [status |-> 500, body |-> [error |-> "ZodError"]]
          /\ bodyRead' = TRUE
          /\ UNCHANGED result
     ELSE LET r == calculateImpermanentLoss(Args(req.body.input))
          IN  /\ result' = r
              /\ resp' = [status |-> 200, body |-> cjson(r)]
              /\ bodyRead' = TRUE
  /\ pc' = "done"
  /\ UNCHANGED <<req, expectedKey>>

\* A server that keeps the last computed result after the answer is sent.
Deliver_KeepsResult ==
  /\ pc = "done"
  /\ pc' = "idle"
  /\ req' = NoReq
  /\ resp' = NoResp
  /\ bodyRead' = FALSE
  /\ UNCHANGED <<expectedKey, result>>

\* The answer is sent; nothing of the request is kept.
Deliver ==
  /\ pc = "done"
  /\ pc' = "idle"
  /\ req' = NoReq
  /\ resp' = NoResp
  /\ result' = NoResult
  /\ bodyRead' = FALSE
  /\ UNCHANGED expectedKey

\* A request of every route may arrive whenever none is being served.
Arrive ==
  /\ pc = "idle"
  /\ \/ \E b \in GoodBodies : Receive("x402", Undefined, b)
     \/ \E b \in GoodBodies : Receive("root", Undefined, b)
     \/ \E h \in Headers : \E b \in GoodBodies \cup BadBodies :
          Receive("internal", h, b)

Next ==
  \/ Arrive
  \/ EntrypointHandler
  \/ RootHandler
  \/ InternalApi
  \/ Deliver

Spec == Init /\ [][Next]_vars

(***************************************************************************)
(* Vocabulary of the properties.                                           *)
(***************************************************************************)
\* calculateImpermanentLoss has been called for the request and has returned.
Called == pc = "done" /\ result # NoResult
\* The arguments of that call.
CallArgs == Args(req.body.input)

Ge0(x) == IsFinite(x) /\ x[1] >= 0
Gt0(x) == Gt(x, Num(0))

\* A valid position, held for a positive time.
ValidPosition(a) ==
  /\ Ge0(a.amount0) /\ Ge0(a.amount1) /\ Gt0(k(a))
  /\ Ge0(a.initialPrice0) /\ Ge0(a.initialPrice1)
  /\ Gt0(hodlValue(a))
  /\ Gt0(a.daysHeld)

\* A request the input constraints rule out for its time or its price ratio.
BadDaysOrRatio(a) == IsZero(a.daysHeld) \/ ~Gt0(a.priceRatio)

(***************************************************************************)
(* C1.  For a valid position and priceRatio = 1 the call returns           *)
(* ilPercentage = 0 and ilUsd = 0, whatever amount0 and amount1 are.       *)
(* The code returns a loss when amount0 differs from amount1.              *)
(***************************************************************************)
C1_NoLossAtRatioOne ==
  (Called /\ ValidPosition(CallArgs) /\ CallArgs.priceRatio = Num(1))
    => (result.il_percentage = Num(0) /\ result.il_usd = Num(0))

(***************************************************************************)
(* C2.  For a valid position and priceRatio > 0 the computed ilPercentage  *)
(* is at most 0.  The code computes a gain for some positions.             *)
(***************************************************************************)
C2_LossNeverPositive ==
  (Called /\ ValidPosition(CallArgs) /\ Gt0(CallArgs.priceRatio))
    => ~Gt0(ilPercentage(CallArgs))

(***************************************************************************)
(* C3.  A request with daysHeld = 0, or with priceRatio zero or negative,  *)
(* is answered with an error on every route, never with a success that    *)
(* carries NaN or infinite fields.  The code answers it 200.               *)
(***************************************************************************)
C3_BadDaysOrRatioRejected ==
  (pc = "done" /\ req.body.kind = "object" /\ req.body.bad = {}
     /\ BadDaysOrRatio(CallArgs))
    => resp.status # 200

(***************************************************************************)
(* C4.  A request whose hodl value is 0 is answered with an error and the  *)
(* division ilUsd / hodlValue is not evaluated for it.  The code divides   *)
(* and answers 200.                                                        *)
(***************************************************************************)
C4_ZeroHodlRejected ==
  (pc = "done" /\ req.body.kind = "object" /\ req.body.bad = {}
     /\ IsZero(hodlValue(CallArgs)))
    => (resp.status # 200 /\ result = NoResult)

(***************************************************************************)
(* C5.  The recommendation every implementation returns is the label of    *)
(* the first matching rule of the five-rule table, applied to the          *)
(* unrounded ilPercentage, feeApr and netApr.  src/index.ts has rules 1, 2 *)
(* and 5 only.                                                             *)
(***************************************************************************)
FiveRuleTable(il, fee, net) ==
  CASE Lt(il, Num(-5)) /\ Lt(fee, Abs(il)) -> ConsiderExiting
    [] ~(Lt(il, Num(-5)) /\ Lt(fee, Abs(il))) /\ Gt(net, Num(10)) -> StrongPosition
    [] ~(Lt(il, Num(-5)) /\ Lt(fee, Abs(il))) /\ ~Gt(net, Num(10)) /\ Gt(net, Num(0))
         -> ProfitablePosition
    [] ~(Lt(il, Num(-5)) /\ Lt(fee, Abs(il))) /\ ~Gt(net, Num(10)) /\ ~Gt(net, Num(0))
         /\ Lt(il, Num(-10)) -> HighIL
    [] OTHER -> MonitorPosition

\* C5: the returned label is the table's, in src/src/index.ts and in src/index.ts.
C5_FirstMatchingRule ==
  Called =>
    result.recommendation =
      FiveRuleTable(ilPercentage(CallArgs), feeApr(CallArgs), netApr(CallArgs))

(***************************************************************************)
(* C6.  Whenever ilPercentage < -5 and feeApr < |ilPercentage| the         *)
(* recommendation is rule 1's, also when netApr > 10, netApr > 0 or        *)
(* ilPercentage < -10 hold as well.                                        *)
(***************************************************************************)
Rule1Matches(a) ==
  Lt(ilPercentage(a), Num(-5)) /\ Lt(feeApr(a), Abs(ilPercentage(a)))

\* C6: when rule 1 matches, rule 1's label is returned.
C6_RuleOneWins ==
  (Called /\ Rule1Matches(CallArgs)) => result.recommendation = ConsiderExiting

\* Rule 1 matches together with rules 2, 3 and 4, and rule 1's label is returned.
C6_Witness ==
  /\ Called /\ Rule1Matches(CallArgs)
  /\ Gt(netApr(CallArgs), Num(10))
  /\ Lt(ilPercentage(CallArgs), Num(-10))
  /\ result.recommendation = ConsiderExiting

(***************************************************************************)
(* C7.  For a valid position and priceRatio r > 0 the derivation yields    *)
(* ilUsd / hodlValue = 2*sqrt(r)/(1+r) - 1, whatever the amounts and the   *)
(* initial prices are.  The code's value depends on them.                  *)
(***************************************************************************)
\* The closed form of the README: IL = 2 * sqrt(price_ratio) / (1 + price_ratio) - 1.
ClosedForm(r) == Sub(Div(Mul(Num(2), Sqrt(r)), Add(Num(1), r)), Num(1))

\* C7: the derivation's ilUsd / hodlValue equals the closed form.
C7_MatchesClosedForm ==
  (Called /\ ValidPosition(CallArgs) /\ Gt0(CallArgs.priceRatio))
    => Div(ilUsd(CallArgs), hodlValue(CallArgs)) = ClosedForm(CallArgs.priceRatio)

(***************************************************************************)
(* C8.  For a fixed valid position the ilPercentage computed for           *)
(* priceRatio r equals the one computed for priceRatio 1/r.                *)
(***************************************************************************)
Inverted(a) == [a EXCEPT !.priceRatio = Div(Num(1), a.priceRatio)]

\* C8: ilPercentage is the same for r and for 1/r.
C8_SymmetricUnderInversion ==
  (Called /\ ValidPosition(CallArgs) /\ Gt0(CallArgs.priceRatio))
    => ilPercentage(CallArgs) = ilPercentage(Inverted(CallArgs))

(***************************************************************************)
(* C9.  For daysHeld > 0 and initialValueUsd > 0, doubling feesEarned      *)
(* exactly doubles the fee_apr that the implementation returns.            *)
(***************************************************************************)
\* The implementation that serves a route.
Implementation(route, a) ==
  IF route = "root" THEN calculateImpermanentLossRoot(a)
  ELSE calculateImpermanentLoss(a)

Doubled(a) == [a EXCEPT !.feesEarned = Mul(Num(2), a.feesEarned)]

FeeAprDefined(a) == Gt0(a.daysHeld) /\ Gt0(initialValue(a)) /\ IsFinite(a.feesEarned)

\* C9 as claimed: the returned fee_apr doubles exactly in every implementation.
\* It does not where src/src/index.ts rounds.
C9_ReturnedFeeAprDoubles ==
  (Called /\ FeeAprDefined(CallArgs)
     /\ ValidPosition(CallArgs) /\ Gt0(CallArgs.priceRatio))
    => Implementation(req.route, Doubled(CallArgs)).fee_apr
         = Mul(Num(2), result.fee_apr)

\* C9 as amended: doubling feesEarned exactly doubles the unrounded feeApr, and
\* so the fee_apr that src/index.ts returns; src/src/index.ts returns the doubled
\* value rounded to 2 decimals, which is within 0.01 of twice the fee_apr it
\* returned for the single fees.
C9_FeeAprDoubles ==
  (Called /\ FeeAprDefined(CallArgs))
    => /\ feeApr(Doubled(CallArgs)) = Mul(Num(2), feeApr(CallArgs))
       /\ req.route = "root"
            => Implementation(req.route, Doubled(CallArgs)).fee_apr
                 = Mul(Num(2), result.fee_apr)
       /\ req.route # "root"
            => LET twice == Implementation(req.route, Doubled(CallArgs)).fee_apr
               IN  /\ twice = ToFixed2(Mul(Num(2), feeApr(CallArgs)))
                   /\ ~Gt(Abs(Sub(twice, Mul(Num(2), result.fee_apr))), Frac(1, 100))

\* Positive fees are doubled and the rounded fee_apr is not doubled exactly.
C9_Witness ==
  /\ Called /\ FeeAprDefined(CallArgs) /\ Gt0(CallArgs.feesEarned)
  /\ ValidPosition(CallArgs) /\ Gt0(CallArgs.priceRatio)
  /\ req.route = "x402"
  /\ feeApr(Doubled(CallArgs)) = Mul(Num(2), feeApr(CallArgs))
  /\ Implementation(req.route, Doubled(CallArgs)).fee_apr # Mul(Num(2), result.fee_apr)

(***************************************************************************)
(* C10.  Every numeric field of the output is returned rounded to 2        *)
(* decimal places, and netApr and the recommendation are computed from the *)
(* unrounded values.  src/index.ts returns its fields unrounded.           *)
(***************************************************************************)
NumericFields ==
  {"il_percentage", "il_usd", "initial_value_usd", "current_value_usd",
   "hodl_value_usd", "fee_apr", "net_apr"}

\* A number with at most 2 decimals (NaN and the infinities print as themselves).
TwoDecimals(x) == x[2] = 0 \/ 100 % x[2] = 0

\* The values the function holds before it builds its result.
Unrounded(a) ==
  [il_percentage     |-> ilPercentage(a),
   il_usd            |-> ilUsd(a),
   initial_value_usd |-> initialValue(a),
   current_value_usd |-> Add(currentValue(a), a.feesEarned),
   hodl_value_usd    |-> hodlValue(a),
   fee_apr           |-> feeApr(a),
   net_apr           |-> netApr(a)]

\* C10: each returned field is the 2-decimal rounding of the unrounded value, and
\* the label is the one the unrounded values select.
C10_RoundedAtTheBoundary ==
  Called =>
    /\ \A f \in NumericFields :
         TwoDecimals(result[f]) /\ result[f] = ToFixed2(Unrounded(CallArgs)[f])
    /\ result.recommendation =
         IF req.route = "root"
         THEN recommendationRoot(ilPercentage(CallArgs), feeApr(CallArgs),
                                 netApr(CallArgs))
         ELSE recommendation(ilPercentage(CallArgs), feeApr(CallArgs),
                             netApr(CallArgs))

(***************************************************************************)
(* C11.  A request with a negative amount or price, with                   *)
(* amount0 * amount1 = 0, or with negative feesEarned is answered with an  *)
(* error before any formula is evaluated: calculateImpermanentLoss never   *)
(* runs with k <= 0.  The code runs it on every schema-valid body.         *)
(***************************************************************************)
Negative(x) == Lt(x, Num(0))

ViolatesInvariants(a) ==
  \/ Negative(a.amount0) \/ Negative(a.amount1)
  \/ Negative(a.initialPrice0) \/ Negative(a.initialPrice1)
  \/ IsZero(k(a))
  \/ Negative(a.feesEarned)

\* C11: such a request gets an error and the function is not called for it.
C11_InvalidPositionRejected ==
  (pc = "done" /\ req.body.kind = "object" /\ req.body.bad = {}
     /\ ViolatesInvariants(CallArgs))
    => (resp.status # 200 /\ result = NoResult)

(***************************************************************************)
(* C12.  The internal endpoint answers 200 only if INTERNAL_API_KEY is set *)
(* to a non-empty value and the X-Internal-API-Key header equals it.  With *)
(* the key unset or empty the answer is 500 "Server configuration error"   *)
(* whatever the header; with the key set and the header absent or          *)
(* different it is 401 "Unauthorized".  In both cases                      *)
(* calculateImpermanentLoss is not called and the body is not read.        *)
(***************************************************************************)
KeyConfigured == expectedKey # Undefined /\ expectedKey # ""
InternalDone == pc = "done" /\ req.route = "internal"

\* C12: who gets a computed result, and what the others get.
C12_KeyGuardsInternalApi ==
  InternalDone =>
    /\ resp.status = 200 => (KeyConfigured /\ req.header = expectedKey)
    /\ ~KeyConfigured =>
         /\ resp = [status |-> 500, body |-> [error |-> "Server configuration error"]]
         /\ result = NoResult /\ bodyRead = FALSE
    /\ (KeyConfigured /\ req.header # expectedKey) =>
         /\ resp = [status |-> 401, body |-> [error |-> "Unauthorized"]]
         /\ result = NoResult /\ bodyRead = FALSE

\* The key is not configured and the request carries no header: the two
\* undefined values are equal, and the request is refused all the same.
C12_Witness ==
  /\ InternalDone
  /\ expectedKey = Undefined /\ req.header = Undefined
  /\ req.body.kind = "object" /\ req.body.bad = {}
  /\ resp.status = 500 /\ result = NoResult /\ bodyRead = FALSE

(***************************************************************************)
(* C13.  The service keeps nothing between requests: no step changes the   *)
(* environment, after an answer is sent nothing of the request is left,    *)
(* and whenever a result is computed it is the value of the route's        *)
(* function at the seven inputs of the request being served, whatever      *)
(* was served before.                                                      *)
(***************************************************************************)
Forgotten ==
  req = NoReq /\ resp = NoResp /\ result = NoResult /\ bodyRead = FALSE

InitialValueUsd(a) ==
  Add(Mul(a.amount0, a.initialPrice0), Mul(a.amount1, a.initialPrice1))
FeeAprOf(a) ==
  Div(Mul(Num(100), Mul(Div(a.feesEarned, a.daysHeld), Num(365))),
      InitialValueUsd(a))
NetAprOf(a) ==
  Add(FeeAprOf(a), Mul(Div(ilPercentage(a), a.daysHeld), Num(365)))

\* What a route returns of a computed value.
Returned(route, x) == IF route = "root" THEN x ELSE ToFixed2(x)

\* C14: the three returned fields are the values of the three formulas.
C14_ValueAndAprFormulas ==
  Called =>
    /\ result.initial_value_usd = Returned(req.route, InitialValueUsd(CallArgs))
    /\ result.fee_apr = Returned(req.route, FeeAprOf(CallArgs))
    /\ result.net_apr = Returned(req.route, NetAprOf(CallArgs))

\* A valid position that earned fees and lost value: the three fields are
\* finite, the fee rate is positive and the net rate differs from it.
C14_Witness ==
  /\ Called /\ ValidPosition(CallArgs) /\ Gt0(CallArgs.priceRatio)
  /\ Gt0(CallArgs.feesEarned)
  /\ Gt0(result.initial_value_usd) /\ Gt0(result.fee_apr)
  /\ IsFinite(result.net_apr) /\ result.net_apr # result.fee_apr

(***************************************************************************)
(* C15.  Before rounding, il_usd = (current_value_usd - feesEarned) -      *)
(* hodl_value_usd and il_percentage = 100 * il_usd / hodl_value_usd: the   *)
(* fees are part of current_value_usd only, and the loss is the same       *)
(* whatever was earned.                                                    *)
(***************************************************************************)
CurrentValueUsd(a) == Add(currentValue(a), a.feesEarned)
IlUsdOf(a) == Sub(Sub(CurrentValueUsd(a), a.feesEarned), hodlValue(a))
IlPercentageOf(a) == Div(Mul(Num(100), IlUsdOf(a)), hodlValue(a))
WithFees(a, f) == [a EXCEPT !.feesEarned = f]

\* C15: the returned loss is the loss of the value without the fees.
C15_FeesOutsideLoss ==
  Called =>
    /\ result.il_usd = Returned(req.route, IlUsdOf(CallArgs))
    /\ result.il_percentage = Returned(req.route, IlPercentageOf(CallArgs))
    /\ \A f \in Fees :
         LET other == Implementation(req.route, WithFees(CallArgs, f))
         IN  /\ other.il_usd = result.il_usd
             /\ other.il_percentage = result.il_percentage

\* A valid position with a loss and with fees: the fees show in
\* current_value_usd, which exceeds hodl_value_usd although il_usd < 0.
C15_Witness ==
  /\ Called /\ ValidPosition(CallArgs) /\ Gt0(CallArgs.priceRatio)
  /\ Gt0(CallArgs.feesEarned)
  /\ Lt(result.il_usd, Num(0)) /\ Lt(result.il_percentage, Num(0))
  /\ Gt(result.current_value_usd, result.hodl_value_usd)

(***************************************************************************)
(* C16.  For k = amount0 * amount1 > 0 and priceRatio > 0 the rebalanced   *)
(* holdings satisfy newAmount0 * newAmount1 = k and newAmount1 /           *)
(* newAmount0 = priceRatio, and at priceRatio = 1 they are the deposited   *)
(* amounts.  The code's holdings lie on the curve but are not the deposit  *)
(* at priceRatio = 1 unless amount0 = amount1.                             *)
(***************************************************************************)
OnTheCurve(a) ==
  /\ Mul(newAmount0(a), newAmount1(a)) = k(a)
  /\ Div(newAmount1(a), newAmount0(a)) = a.priceRatio

\* C16: on the curve, and the deposit itself when the price has not moved.
C16_RebalancedHoldings ==
  (Called /\ ValidPosition(CallArgs) /\ Gt0(CallArgs.priceRatio)) =>
    /\ OnTheCurve(CallArgs)
    /\ CallArgs.priceRatio = Num(1) =>
         /\ newAmount0(CallArgs) = CallArgs.amount0
         /\ newAmount1(CallArgs) = CallArgs.amount1

(***************************************************************************)
(* C17.  src/index.ts and src/src/index.ts return the same recommendation  *)
(* for every input, and each numeric field of src/src/index.ts is the      *)
(* field of src/index.ts rounded to two decimals.  The labels differ       *)
(* where rule 3 or rule 4 of src/src/index.ts applies.                     *)
(***************************************************************************)
SameNumbers(a) ==
  \A f \in NumericFields :
    calculateImpermanentLoss(a)[f] = ToFixed2(calculateImpermanentLossRoot(a)[f])

SameLabel(a) ==
  calculateImpermanentLoss(a).recommendation
    = calculateImpermanentLossRoot(a).recommendation

\* C17: the two implementations agree on the inputs of every call.
C17_ImplementationsAgree ==
  (Called /\ ValidPosition(CallArgs) /\ Gt0(CallArgs.priceRatio))
    => (SameLabel(CallArgs) /\ SameNumbers(CallArgs))

(***************************************************************************)
(* C18.  On the internal endpoint a request with the matching key whose    *)
(* body is not JSON or fails ILInputSchema does not reach                  *)
(* calculateImpermanentLoss and gets HTTP 500 with an "error" message.     *)
(* Every request gets one response, of status 200, 401 or 500, and the     *)
(* body is read only after the key was accepted.                           *)
(***************************************************************************)
KeyAccepted == KeyConfigured /\ req.header = expectedKey
\* Not JSON, or an object with a field missing or not a number.
BadBody == req.body.kind = "malformed" \/ req.body.bad # {}

InternalAnswer ==
  InternalDone =>
    /\ resp.status \in {200, 401, 500}
    /\ (KeyAccepted /\ BadBody) =>
         /\ resp.status = 500
         /\ "error" \in DOMAIN resp.body
         /\ result = NoResult
    /\ bodyRead => KeyAccepted

\* The handler answers a pending request in its one step, and an answer
\* is not replaced by a second one.
OneAnswer ==
  /\ (pc = "pending" /\ req.route = "internal") =>
       (pc' = "done" /\ req' = req /\ resp' # NoResp)
  /\ (pc = "done" /\ req.route = "internal") =>
       (pc' = "idle" /\ resp' = NoResp)

\* C18: how the internal endpoint answers, bad bodies included.
C18_InternalErrors == []InternalAnswer /\ [][OneAnswer]_vars

\* The key matches and the body lacks a field: answered 500, nothing computed.
C18_Witness ==
  /\ InternalDone /\ KeyAccepted
  /\ req.body.kind = "object" /\ req.body.bad # {}
  /\ resp.status = 500 /\ "error" \in DOMAIN resp.body
  /\ result = NoResult /\ bodyRead

====
